---- MODULE Spec2Model ----
(***************************************************************************)
(* The execution core of the shell: execute / execute_command              *)
(* (executor.c) and the background job table (jobs.c, jobs.h).             *)
(*                                                                         *)
(* The shell is one thread; the processes it forks run concurrently with   *)
(* it.  The descriptor table of the shell and of every child maps a        *)
(* descriptor number to the open file it refers to, so that dup2, close    *)
(* and the kernel's lowest-free-number allocation are modelled by what     *)
(* they do.                                                                *)
(***************************************************************************)
EXTENDS Integers, Sequences, FiniteSets, TLC

(* ------------------------------ bounds -------------------------------- *)
\* Number of processes the system lets the shell fork in one run.
MaxPid == 2
\* Longest pipeline the parser hands over.
MaxStages == 3
\* Slots of the job table in the model (the source's table has 64).
MaxJobs == 1

(* ------------------------ constants of the code ----------------------- *)
MAX_JOBS == MaxJobs
CMDLINE_SIZE == 256
STDIN_FILENO == 0
STDOUT_FILENO == 1
STDERR_FILENO == 2

\* Descriptor numbers: the three standard ones, two per pipe, two redirections.
MaxFd == 2 + 2 * (MaxStages - 1) + 2
Fds == 0..MaxFd

(* --------------------------- open files -------------------------------- *)
\* What a descriptor refers to.
Closed == [t |-> "closed", k |-> 0]
TtyIn == [t |-> "tty_in", k |-> 0]
TtyOut == [t |-> "tty_out", k |-> 0]
TtyErr == [t |-> "tty_err", k |-> 0]
InFile == [t |-> "in_file", k |-> 0]
OutFile == [t |-> "out_file", k |-> 0]
PipeRead(k) == [t |-> "pipe_r", k |-> k]
PipeWrite(k) == [t |-> "pipe_w", k |-> k]

\* The descriptor table the shell starts with.
ShellFds == [fd \in Fds |->
               IF fd = STDIN_FILENO THEN TtyIn
               ELSE IF fd = STDOUT_FILENO THEN TtyOut
               ELSE IF fd = STDERR_FILENO THEN TtyErr
               ELSE Closed]
NoFds == [fd \in Fds |-> Closed]

\* open(2) / pipe(2) return the lowest descriptor number not in use.
LowestFree(tab) == CHOOSE fd \in Fds : tab[fd] = Closed /\ \A g \in Fds : g < fd => tab[g] # Closed
OpenFd(tab, obj) == [tab EXCEPT ![LowestFree(tab)] = obj]
\* close(2): a number that is not open (or out of range) is EBADF and changes nothing.
CloseFd(tab, fd) == IF fd \in Fds THEN [tab EXCEPT ![fd] = Closed] ELSE tab
\* dup2(2): newfd now refers to oldfd's open file.
Dup2(tab, oldfd, newfd) == [tab EXCEPT ![newfd] = tab[oldfd]]
Dup2Fails(tab, oldfd) == oldfd \notin Fds \/ tab[oldfd] = Closed

RECURSIVE CloseSeq(_, _)
\* close() on each number of a sequence, in order.
CloseSeq(tab, fds) ==
  IF fds = <<>> THEN tab ELSE CloseSeq(CloseFd(tab, Head(fds)), Tail(fds))

RECURSIVE BadCloses(_, _)
\* The numbers of a sequence of close() calls that were not open when closed.
BadCloses(tab, fds) ==
  IF fds = <<>> THEN {}
  ELSE (IF Head(fds) \in Fds /\ tab[Head(fds)] # Closed THEN {} ELSE {Head(fds)})
       \cup BadCloses(CloseFd(tab, Head(fds)), Tail(fds))

(* --------------------------- processes --------------------------------- *)
\* A process id is "none" (never forked), "running", "zombie" (terminated, not
\* yet waited for) or "reaped" (waited for: no longer a child of the shell).
ProcStates == {"none", "running", "zombie", "reaped"}

\* waitpid(pid, &status, WNOHANG): pid if the child has terminated (it is reaped),
\* 0 if it is still running, -1 (ECHILD) if pid is no child of the shell.
WaitNoHang(procs, p) ==
  IF p \in DOMAIN procs /\ procs[p] = "zombie" THEN p
  ELSE IF p \in DOMAIN procs /\ procs[p] = "running" THEN 0
  ELSE -1

\* waitpid(pid, &status, 0) blocks exactly while pid is a running child.
WaitBlocks(procs, p) == p \in DOMAIN procs /\ procs[p] = "running"
\* The process table once a wait on p has returned.
Reaped(procs, p) ==
  IF p \in DOMAIN procs /\ procs[p] = "zombie" THEN [procs EXCEPT ![p] = "reaped"] ELSE procs

(* ---------------------------- job table -------------------------------- *)
\* Command-line texts are sequences of characters.
Texts == {<<>>, <<"a", "b">>}
EmptyJob == [pid |-> 0, active |-> 0, cmdline |-> <<>>]

\* snprintf(buf, size, "%s", s): at most size-1 characters are stored.
Snprintf(size, s) == SubSeq(s, 1, IF Len(s) < size - 1 THEN Len(s) ELSE size - 1)

\* A variant that scans the table from its last slot.
LastInactive(jobs) ==
  IF \E s \in DOMAIN jobs : jobs[s].active = 0
  THEN CHOOSE s \in DOMAIN jobs :
         jobs[s].active = 0 /\ \A r \in DOMAIN jobs : r > s => jobs[r].active # 0
  ELSE -1

\* The slot add_job takes: the first inactive one, or -1 when the table is full.
FirstInactive(jobs) ==
  IF \E s \in DOMAIN jobs : jobs[s].active = 0
  THEN CHOOSE s \in DOMAIN jobs :
         jobs[s].active = 0 /\ \A r \in DOMAIN jobs : r < s => jobs[r].active # 0
  ELSE -1

\* add_job: its return value, and the table it leaves (jobs.c 10-22).
add_job_ret(jobs) == FirstInactive(jobs)

\* A variant that evicts the job of slot 0 when the table is full.
add_job_evicting(jobs, p, cmdline) ==
  [jobs EXCEPT ![IF FirstInactive(jobs) = -1 THEN 0 ELSE FirstInactive(jobs)] =
     [pid |-> p, active |-> 1, cmdline |-> Snprintf(CMDLINE_SIZE, cmdline)]]

add_job(jobs, p, cmdline) ==
  IF FirstInactive(jobs) = -1 THEN jobs
  ELSE [jobs EXCEPT ![FirstInactive(jobs)] =
          [pid |-> p, active |-> 1, cmdline |-> Snprintf(CMDLINE_SIZE, cmdline)]]

\* One iteration of reap_finished_jobs' loop on slot s (jobs.c 27-32).
ReapSlot(st, s) ==
  IF st.jobs[s].active = 0 THEN st
  ELSE IF WaitNoHang(st.proc, st.jobs[s].pid) = st.jobs[s].pid
       THEN [jobs |-> [st.jobs EXCEPT ![s].active = 0],
             proc |-> Reaped(st.proc, st.jobs[s].pid)]
       ELSE st

RECURSIVE ReapFrom(_, _)
ReapFrom(st, s) == IF s \notin DOMAIN st.jobs THEN st ELSE ReapFrom(ReapSlot(st, s), s + 1)

\* reap_finished_jobs: the table and the process table it leaves (jobs.c 24-34).
reap_finished_jobs(jobs, procs) == ReapFrom([jobs |-> jobs, proc |-> procs], 0)

NoJobsLine == [pid |-> 0, text |-> <<"(no background jobs)">>]
Unknown == <<"(unknown)">>

RECURSIVE JobLines(_, _)
\* The lines print_jobs writes for slots s.. of the table, in slot order.
JobLines(jobs, s) ==
  IF s \notin DOMAIN jobs THEN <<>>
  ELSE (IF jobs[s].active # 0
        THEN <<[pid |-> jobs[s].pid,
                text |-> IF jobs[s].cmdline # <<>> THEN jobs[s].cmdline ELSE Unknown]>>
        ELSE <<>>) \o JobLines(jobs, s + 1)

\* What print_jobs writes, given the table after its reap (jobs.c 40-47).
print_jobs_output(jobs) ==
  IF JobLines(jobs, 0) = <<>> THEN <<NoJobsLine>> ELSE JobLines(jobs, 0)

\* A variant that lists the table without refreshing it first.
print_jobs_stale(jobs, procs) ==
  [jobs |-> jobs, proc |-> procs, out |-> print_jobs_output(jobs)]

\* print_jobs: the table and the process table it leaves, and what it writes
\* (jobs.c 36-48).
print_jobs(jobs, procs) ==
  LET r == reap_finished_jobs(jobs, procs)
  IN [jobs |-> r.jobs, proc |-> r.proc, out |-> print_jobs_output(r.jobs)]

(* --------------------------- command lines ----------------------------- *)
\* The argv of a stage is empty (<<>>), the builtin (<<"jobs">>) or an external
\* program (<<"cat">>).
\* Pipelines of n external programs in which the parser left at most one stage empty.
Pipelines(n) == {[s \in 1..n |-> IF s = e THEN <<>> ELSE <<"cat">>] : e \in 0..n}
\* struct cmdline: seq, in and out (is a path given), bg.  Lines that execute
\* answers before it looks at the redirections are drawn without them.
CmdLines ==
  [seq : {<<>>, <<<<>>>>, <<<<"jobs">>>>}, in : {FALSE}, out : {FALSE}, bg : BOOLEAN]
  \cup [seq : {<<<<"cat">>>>} \cup UNION {Pipelines(n) : n \in 2..MaxStages},
        in : BOOLEAN, out : BOOLEAN, bg : BOOLEAN]
\* The raw text the front end left in g_last_cmdline for a line: only a
\* background line's text is ever read, and the text of a pipeline is not empty.
TextsOf(cl) == IF cl.bg /\ Len(cl.seq) = 1 THEN Texts ELSE {<<"a", "b">>}
NoCmd == [seq |-> <<>>, in |-> FALSE, out |-> FALSE, bg |-> FALSE]

\* seq[i] of the source, stages counted from 0.
Stage(cl, s) == cl.seq[s + 1]
Ncmds(cl) == Len(cl.seq)

(* ------------------------------- state --------------------------------- *)
VARIABLES
  g_jobs,          \* the job table
  g_last_cmdline,  \* the raw text of the line being executed
  proc,            \* process id -> ProcStates
  ctab,            \* process id -> the descriptor table a child of the call in progress
                   \* runs its program with (the open files of an earlier call are others)
  fdtab,           \* the shell's descriptor table
  listing,         \* what the last print_jobs wrote
  pc,              \* where the shell is inside execute ("idle": not inside)
  l,               \* the command line being executed
  pipes,           \* stage k -> <<read fd, write fd>> of pipe k
  in_fd,           \* input descriptor (in_fd / in_fd_first)
  out_fd,          \* output descriptor (out_fd / out_fd_last)
  pids,            \* the pid array: stage -> pid, Uninit where never written
  i,               \* the spawn loop's counter
  t,               \* the wait loops' counter
  ret,             \* what the last execute returned ("none" before the first)
  spawned,         \* the pids forked by this call, in order
  waited,          \* the targets of the blocking waits this call has performed
  badclose,        \* descriptor numbers this call closed while they were not open
  jobret,          \* <<r>> once this call's add_job has returned r, <<>> before
  failure,         \* why this call took a failure path ("none" otherwise)
  pid_read         \* what PIPE_FAIL's read of an unwritten pids[t] yielded, until its
                   \* wait is over (Uninit otherwise)

kernel == <<proc, ctab, fdtab>>
\* The slots of the job table: 0 .. (table size - 1).
Slots == DOMAIN g_jobs
vars == <<g_jobs, g_last_cmdline, proc, ctab, fdtab, listing, pc, l, pipes, in_fd, out_fd,
          pids, i, t, ret, spawned, waited, badclose, jobret, failure, pid_read>>

\* An entry of the malloc'ed pid array that no one has written.
Uninit == -1
NoPipes == <<>>
NoPids == <<>>

\* The state the shell starts in, on a system that lets it fork n processes,
\* with a job table of m slots.
InitWith(n, m) ==
  /\ g_jobs = [s \in 0..(m - 1) |-> EmptyJob]
  /\ g_last_cmdline = <<>>
  /\ proc = [p \in 1..n |-> "none"]
  /\ ctab = [p \in 1..n |-> NoFds]
  /\ fdtab = ShellFds
  /\ listing = <<>>
  /\ pc = "idle"
  /\ l = NoCmd
  /\ pipes = NoPipes
  /\ in_fd = STDIN_FILENO
  /\ out_fd = STDOUT_FILENO
  /\ pids = NoPids
  /\ i = 0
  /\ t = 0
  /\ ret = "none"
  /\ spawned = <<>>
  /\ waited = <<>>
  /\ badclose = {}
  /\ jobret = <<>>
  /\ failure = "none"
  /\ pid_read = Uninit

Init == InitWith(MaxPid, MAX_JOBS)
\* The same shell where one more process can be forked.
InitRoomy == InitWith(MaxPid + 1, MAX_JOBS)
\* The same shell with one more process and one more slot in the job table.
InitTable == InitWith(MaxPid + 1, MAX_JOBS + 1)

\* execute returns code to the shell's loop.
Return(code) == pc' = "done" /\ ret' = code

\* The sequence of close() calls of `for k < n: close(pipes[k][0]); close(pipes[k][1])`.
RECURSIVE PipeFdsFrom(_, _, _)
PipeFdsFrom(pp, k, n) ==
  IF k >= n THEN <<>> ELSE <<pp[k][1], pp[k][2]>> \o PipeFdsFrom(pp, k + 1, n)
AllPipeFds(pp, n) == PipeFdsFrom(pp, 0, n)

\* fork() needs a free process id; it may fail in any case.
FreePid ==
  CHOOSE p \in DOMAIN proc : proc[p] = "none" /\ \A q \in DOMAIN proc : q < p => proc[q] # "none"
CanFork == \E p \in DOMAIN proc : proc[p] = "none"

\* `if (in != STDIN_FILENO) close(in); if (out != STDOUT_FILENO) close(out);`
EndFds(in, out) ==
  (IF in # STDIN_FILENO THEN <<in>> ELSE <<>>) \o (IF out # STDOUT_FILENO THEN <<out>> ELSE <<>>)

(* ------------------------------ children ------------------------------- *)
\* The child of execute_command between fork and execvp (executor.c 32-44):
\* the table it execs with, or exit code 126 when a dup2 fails.
ChildSingle(tab, in, out) ==
  LET failIn == in # STDIN_FILENO /\ Dup2Fails(tab, in)
      t1 == IF in # STDIN_FILENO THEN CloseFd(Dup2(tab, in, STDIN_FILENO), in) ELSE tab
      failOut == out # STDOUT_FILENO /\ Dup2Fails(t1, out)
      t2 == IF out # STDOUT_FILENO THEN CloseFd(Dup2(t1, out, STDOUT_FILENO), out) ELSE t1
  IN IF failIn \/ failOut THEN [code |-> 126, tab |-> NoFds] ELSE [code |-> 0, tab |-> t2]

\* A variant of the pipeline child that does not close the pipe descriptors.
ChildPipelineKeepsPipes(tab, cl, pp, s, in_first, out_last) ==
  LET n == Ncmds(cl)
      cin == IF s = 0 THEN in_first ELSE pp[s - 1][1]
      cout == IF s = n - 1 THEN out_last ELSE pp[s][2]
      t1 == IF cin # STDIN_FILENO THEN Dup2(tab, cin, STDIN_FILENO) ELSE tab
      t2 == IF cout # STDOUT_FILENO THEN Dup2(t1, cout, STDOUT_FILENO) ELSE t1
  IN [code |-> 0, tab |-> t2]

\* A variant of the pipeline child that closes the read ends only.
ChildPipelineKeepsWriteEnds(tab, cl, pp, s, in_first, out_last) ==
  LET n == Ncmds(cl)
      cin == IF s = 0 THEN in_first ELSE pp[s - 1][1]
      cout == IF s = n - 1 THEN out_last ELSE pp[s][2]
      t1 == IF cin # STDIN_FILENO THEN Dup2(tab, cin, STDIN_FILENO) ELSE tab
      t2 == IF cout # STDOUT_FILENO THEN Dup2(t1, cout, STDOUT_FILENO) ELSE t1
      t3 == CloseSeq(t2, [k \in 1..(n - 1) |-> pp[k - 1][1]])
      t4 == IF cl.in /\ in_first # STDIN_FILENO /\ cin # STDIN_FILENO
            THEN CloseFd(t3, in_first) ELSE t3
      t5 == IF cl.out /\ out_last # STDOUT_FILENO /\ cout # STDOUT_FILENO
            THEN CloseFd(t4, out_last) ELSE t4
  IN [code |-> 0, tab |-> t5]

\* Child i of a pipeline between fork and execvp (executor.c 170-191).
ChildPipeline(tab, cl, pp, s, in_first, out_last) ==
  LET n == Ncmds(cl)
      cin == IF s = 0 THEN in_first ELSE pp[s - 1][1]
      cout == IF s = n - 1 THEN out_last ELSE pp[s][2]
      failIn == cin # STDIN_FILENO /\ Dup2Fails(tab, cin)
      t1 == IF cin # STDIN_FILENO /\ ~failIn THEN Dup2(tab, cin, STDIN_FILENO) ELSE tab
      failOut == cout # STDOUT_FILENO /\ Dup2Fails(t1, cout)
      t2 == IF cout # STDOUT_FILENO /\ ~failOut THEN Dup2(t1, cout, STDOUT_FILENO) ELSE t1
      t3 == CloseSeq(t2, AllPipeFds(pp, n - 1))
      t4 == IF cl.in /\ in_first # STDIN_FILENO /\ cin # STDIN_FILENO
            THEN CloseFd(t3, in_first) ELSE t3
      t5 == IF cl.out /\ out_last # STDOUT_FILENO /\ cout # STDOUT_FILENO
            THEN CloseFd(t4, out_last) ELSE t4
  IN IF failIn \/ failOut THEN [code |-> 126, tab |-> NoFds] ELSE [code |-> 0, tab |-> t5]

\* The process table and the children's descriptor tables after a fork of p
\* whose child ran up to execvp (or exited 126).
Forked(procs, p, child) == [procs EXCEPT ![p] = IF child.code = 0 THEN "running" ELSE "zombie"]

(* ------------------------------ execute -------------------------------- *)
\* `strcmp(argv[0], "jobs") == 0` on a single stage (executor.c 75-80).
IsJobsBuiltin(cl) == Ncmds(cl) = 1 /\ Stage(cl, 0) # <<>> /\ Stage(cl, 0)[1] = "jobs"

\* execute, from its entry to the dispatch on the number of stages
\* (executor.c 64-83).
Call(cl, text) ==
  /\ UNCHANGED pid_read
  /\ pc = "idle"
  /\ LET r == reap_finished_jobs(g_jobs, proc)
         n == Ncmds(cl)
     IN /\ g_jobs' = r.jobs
        /\ proc' = r.proc
        /\ IF n = 0 \/ (n = 1 /\ Stage(cl, 0) = <<>>)
           THEN Return("success")
           ELSE IF IsJobsBuiltin(cl) THEN pc' = "print_jobs" /\ ret' = "none"
           ELSE IF n = 1 THEN pc' = "single_open" /\ ret' = "none"
           ELSE pc' = "pipeline" /\ ret' = "none"
  /\ l' = cl
  /\ g_last_cmdline' = text
  /\ UNCHANGED <<ctab, fdtab, listing, pipes, in_fd, out_fd, pids, i, t, spawned, waited,
                 badclose, jobret, failure>>

\* The jobs builtin: print_jobs, then the return (executor.c 80-83, jobs.c 36-48).
PrintJobs ==
  /\ UNCHANGED pid_read
  /\ pc = "print_jobs"
  /\ LET r == print_jobs(g_jobs, proc)
     IN /\ g_jobs' = r.jobs
        /\ proc' = r.proc
        /\ listing' = r.out
  /\ Return("success")
  /\ UNCHANGED <<g_last_cmdline, ctab, fdtab, l, pipes, in_fd, out_fd, pids, i, t, spawned,
                 waited, badclose, jobret, failure>>

\* execute has returned: its frame is gone and the shell reads the next line.
Leave ==
  /\ UNCHANGED pid_read
  /\ pc = "done"
  /\ pc' = "idle"
  /\ l' = NoCmd
  /\ g_last_cmdline' = <<>>
  /\ listing' = <<>>
  /\ pipes' = NoPipes
  /\ in_fd' = STDIN_FILENO
  /\ out_fd' = STDOUT_FILENO
  /\ pids' = NoPids
  /\ i' = 0
  /\ t' = 0
  /\ ret' = "none"
  /\ spawned' = <<>>
  /\ waited' = <<>>
  /\ badclose' = {}
  /\ jobret' = <<>>
  /\ failure' = "none"
  /\ ctab' = [p \in DOMAIN ctab |-> NoFds]
  /\ UNCHANGED <<g_jobs, proc, fdtab>>

\* The single-command path resolves the redirections (executor.c 85-99).
SingleOpen ==
  /\ UNCHANGED pid_read
  /\ pc = "single_open"
  /\ \E f \in {"none", "open_in", "open_out"} :
       /\ f = "open_in" => l.in
       /\ f = "open_out" => l.out
       /\ LET t1 == IF l.in /\ f # "open_in" THEN OpenFd(fdtab, InFile) ELSE fdtab
              in == IF l.in /\ f # "open_in" THEN LowestFree(fdtab) ELSE STDIN_FILENO
              t2 == IF l.out /\ f = "none" THEN OpenFd(t1, OutFile) ELSE t1
              out == IF l.out /\ f = "none" THEN LowestFree(t1) ELSE STDOUT_FILENO
              undo == IF in # STDIN_FILENO THEN <<in>> ELSE <<>>
          IN IF f = "none"
             THEN /\ fdtab' = t2
                  /\ in_fd' = in
                  /\ out_fd' = out
                  /\ pc' = "execute_command"
                  /\ UNCHANGED <<ret, failure, badclose>>
             ELSE /\ fdtab' = IF f = "open_out" THEN CloseSeq(t1, undo) ELSE t1
                  /\ badclose' = IF f = "open_out" THEN badclose \cup BadCloses(t1, undo)
                                 ELSE badclose
                  /\ failure' = f
                  /\ Return("failure")
                  /\ UNCHANGED <<in_fd, out_fd>>
  /\ UNCHANGED <<g_jobs, g_last_cmdline, proc, ctab, listing, l, pipes, pids, i, t,
                 spawned, waited, jobret>>

\* `if (!bg)`: execute_command waits for its child (executor.c 49).
CommandWaits(bg) == ~bg

\* A variant that forgets the output descriptor when fork fails.
ForkFailClosesKeepOutput(in, out) == IF in # STDIN_FILENO THEN <<in>> ELSE <<>>

\* What execute_command closes when fork fails (executor.c 27-28).
ForkFailCloses(in, out) == EndFds(in, out)

\* execute_command up to its wait (executor.c 21-56).
ExecuteCommand ==
  /\ UNCHANGED pid_read
  /\ pc = "execute_command"
  /\ IF Stage(l, 0) = <<>>
     THEN Return("success")
          /\ UNCHANGED <<kernel, g_jobs, pids, spawned, badclose, jobret, failure>>
     ELSE \E ok \in {b \in BOOLEAN : b => CanFork} :
       LET p == FreePid
           child == ChildSingle(fdtab, in_fd, out_fd)
           closes == IF ok THEN EndFds(in_fd, out_fd) ELSE ForkFailCloses(in_fd, out_fd)
       IN /\ fdtab' = CloseSeq(fdtab, closes)
          /\ badclose' = badclose \cup BadCloses(fdtab, closes)
          /\ IF ~ok
             THEN /\ failure' = "fork"
                  /\ Return("failure")
                  /\ UNCHANGED <<proc, ctab, g_jobs, pids, spawned, jobret>>
             ELSE /\ proc' = Forked(proc, p, child)
                  /\ ctab' = [ctab EXCEPT ![p] = child.tab]
                  /\ pids' = (0 :> p)
                  /\ spawned' = <<p>>
                  /\ failure' = "none"
                  /\ IF CommandWaits(l.bg)
                     THEN /\ UNCHANGED <<g_jobs, jobret>>
                          /\ pc' = "single_wait"
                          /\ ret' = "none"
                     ELSE /\ g_jobs' = add_job(g_jobs, p, g_last_cmdline)
                          /\ jobret' = <<add_job_ret(g_jobs)>>
                          /\ Return("success")
  /\ UNCHANGED <<g_last_cmdline, listing, l, pipes, in_fd, out_fd, i, t, waited>>

\* execute_command's foreground wait (executor.c 49-51, 56).
SingleWait ==
  /\ UNCHANGED pid_read
  /\ pc = "single_wait"
  /\ ~WaitBlocks(proc, pids[0])
  /\ proc' = Reaped(proc, pids[0])
  /\ waited' = Append(waited, pids[0])
  /\ Return("success")
  /\ UNCHANGED <<g_jobs, g_last_cmdline, ctab, fdtab, listing, l, pipes, in_fd, out_fd,
                 pids, i, t, spawned, badclose, jobret, failure>>

\* pipe(pipes[k]): the table and the descriptor pairs after the call.
MakePipe(st, k) ==
  LET r == LowestFree(st.tab)
      t1 == OpenFd(st.tab, PipeRead(k))
      w == LowestFree(t1)
      t2 == OpenFd(t1, PipeWrite(k))
  IN [tab |-> t2, pipes |-> st.pipes @@ (k :> <<r, w>>)]

\* pipe(2) for pipes k..n-1 from table st.tab: the table and the descriptor
\* pairs the calls return.
RECURSIVE MakePipes(_, _, _)
MakePipes(st, k, n) ==
  IF k >= n THEN st
  ELSE CHOOSE res \in {MakePipes(nx, k + 1, n) : nx \in {MakePipe(st, k)}} : TRUE

\* A variant that forgets the input descriptor when the output cannot be opened.
SetupFailClosesKeepInput(f, pp, made, in, out) ==
  (IF f = "malloc_pids" THEN EndFds(in, out) ELSE <<>>) \o AllPipeFds(pp, made)

\* What the setup closes when step f fails, with pipes 0..made-1 created
\* (executor.c 117, 131, 140-141, 150-152).
SetupFailCloses(f, pp, made, in, out) ==
  (IF f \in {"open_out", "malloc_pids"} THEN EndFds(in, out) ELSE <<>>) \o AllPipeFds(pp, made)

\* The pipeline path before its first fork (executor.c 104-155): the pipes are
\* created, the redirections resolved once, the pid array allocated.  f is the
\* step that fails ("none": no step does), fp the pipe whose creation fails.
PipelineSetup ==
  /\ UNCHANGED pid_read
  /\ pc = "pipeline"
  /\ \E f \in {"none", "malloc_pipes", "pipe", "open_in", "open_out", "malloc_pids"} :
     \E fp \in 0..(Ncmds(l) - 2) :
       /\ f = "open_in" => l.in
       /\ f = "open_out" => l.out
       /\ f # "pipe" => fp = 0
       /\ \E made \in {MakePipes([tab |-> fdtab, pipes |-> NoPipes], 0,
                                  IF f = "malloc_pipes" THEN 0
                                  ELSE IF f = "pipe" THEN fp ELSE Ncmds(l) - 1)} :
          \E t1 \in {IF l.in /\ f \in {"none", "open_out", "malloc_pids"}
                      THEN OpenFd(made.tab, InFile) ELSE made.tab} :
          \E t2 \in {IF l.out /\ f \in {"none", "malloc_pids"}
                      THEN OpenFd(t1, OutFile) ELSE t1} :
          LET npipes == Ncmds(l) - 1
              gotIn == l.in /\ f \in {"none", "open_out", "malloc_pids"}
              in == IF gotIn THEN LowestFree(made.tab) ELSE STDIN_FILENO
              gotOut == l.out /\ f \in {"none", "malloc_pids"}
              out == IF gotOut THEN LowestFree(t1) ELSE STDOUT_FILENO
              undo == SetupFailCloses(f, made.pipes,
                                      IF f = "pipe" THEN fp ELSE
                                      IF f = "malloc_pipes" THEN 0 ELSE npipes, in, out)
          IN /\ pipes' = made.pipes
             /\ IF f = "none"
                THEN /\ fdtab' = t2
                     /\ in_fd' = in
                     /\ out_fd' = out
                     /\ pids' = [s \in 0..(Ncmds(l) - 1) |-> Uninit]
                     /\ pc' = "spawn"
                     /\ UNCHANGED <<ret, failure, badclose>>
                ELSE /\ fdtab' = CloseSeq(t2, undo)
                     /\ badclose' = badclose \cup BadCloses(t2, undo)
                     /\ failure' = f
                     /\ Return("failure")
                     /\ UNCHANGED <<in_fd, out_fd, pids>>
  /\ UNCHANGED <<g_jobs, g_last_cmdline, proc, ctab, listing, l, i, t, spawned, waited,
                 jobret>>

\* A variant that leaves the input redirection open after stage 0.
AfterForkClosesKeepInput(pp, s, in_first) == IF s > 0 THEN <<pp[s - 1][2]>> ELSE <<>>

\* What the parent closes right after forking stage s (executor.c 196-204).
AfterForkCloses(pp, s, in_first) ==
  (IF s = 0 /\ in_first # STDIN_FILENO THEN <<in_first>> ELSE <<>>)
  \o (IF s > 0 THEN <<pp[s - 1][2]>> ELSE <<>>)

\* A variant that never finds a stage empty.
EmptyStageNever(cl, s) == FALSE

\* `if (!argv || !argv[0])`: stage s has no program (executor.c 159).
EmptyStage(cl, s) == Stage(cl, s) = <<>>

\* One iteration of the spawn loop, for stage i (executor.c 157-205).
SpawnStage ==
  /\ UNCHANGED pid_read
  /\ pc = "spawn"
  /\ i < Ncmds(l)
  /\ IF EmptyStage(l, i)
     THEN /\ failure' = "empty"
          /\ pc' = "PIPE_FAIL"
          /\ UNCHANGED <<kernel, pids, in_fd, i, spawned, badclose>>
     ELSE \E ok \in {b \in BOOLEAN : b => CanFork} :
       IF ~ok
       THEN /\ failure' = "fork"
            /\ pc' = "PIPE_FAIL"
            /\ UNCHANGED <<kernel, pids, in_fd, i, spawned, badclose>>
       ELSE LET p == FreePid
                child == ChildPipeline(fdtab, l, pipes, i, in_fd, out_fd)
                closes == AfterForkCloses(pipes, i, in_fd)
            IN /\ proc' = Forked(proc, p, child)
               /\ ctab' = [ctab EXCEPT ![p] = child.tab]
               /\ pids' = [pids EXCEPT ![i] = p]
               /\ spawned' = Append(spawned, p)
               /\ fdtab' = CloseSeq(fdtab, closes)
               /\ badclose' = badclose \cup BadCloses(fdtab, closes)
               /\ in_fd' = IF i = 0 THEN STDIN_FILENO ELSE in_fd
               /\ i' = i + 1
               /\ pc' = IF i + 1 = Ncmds(l) THEN "all_spawned" ELSE "spawn"
               /\ failure' = "none"
  /\ UNCHANGED <<g_jobs, g_last_cmdline, listing, l, pipes, out_fd, t, ret, waited, jobret>>

\* What the parent closes once every stage is forked (executor.c 207-212).
ParentFinalCloses(pp, n, out) ==
  AllPipeFds(pp, n - 1) \o (IF out # STDOUT_FILENO THEN <<out>> ELSE <<>>)

\* A variant that waits whatever the flag.
PipelineWaitsAlways(cl) == TRUE

\* `if (!l->bg)`: execute waits for the stages (executor.c 214).
PipelineWaits(cl) == ~cl.bg

\* A variant that registers the last stage.
JobPidLast(pp, n) == pp[n - 1]

\* The pid a background pipeline is registered under (executor.c 219).
JobPid(pp, n) == pp[0]

\* After the loop: the parent closes its descriptors and either starts waiting
\* or registers the first stage as a job and returns (executor.c 207-224).
AllSpawned ==
  /\ UNCHANGED pid_read
  /\ pc = "all_spawned"
  /\ LET closes == ParentFinalCloses(pipes, Ncmds(l), out_fd)
     IN /\ fdtab' = CloseSeq(fdtab, closes)
        /\ badclose' = badclose \cup BadCloses(fdtab, closes)
  /\ IF PipelineWaits(l)
     THEN /\ UNCHANGED <<g_jobs, jobret, ret>>
          /\ pc' = "wait"
     ELSE /\ g_jobs' = add_job(g_jobs, JobPid(pids, Ncmds(l)), g_last_cmdline)
          /\ jobret' = <<add_job_ret(g_jobs)>>
          /\ Return("success")
  /\ t' = 0
  /\ UNCHANGED <<g_last_cmdline, proc, ctab, listing, l, pipes, in_fd, out_fd, pids, i,
                 spawned, waited, failure>>

\* A variant that waits for the stages last to first.
WaitTargetReversed(pp, n, k) == pp[n - 1 - k]

\* The target of the t-th wait of the foreground loop (executor.c 216).
WaitTarget(pp, n, k) == pp[k]

\* One blocking wait of the foreground loop (executor.c 214-216, 222-224).
WaitStage ==
  /\ UNCHANGED pid_read
  /\ pc = "wait"
  /\ t < Ncmds(l)
  /\ LET target == WaitTarget(pids, Ncmds(l), t)
     IN /\ ~WaitBlocks(proc, target)
        /\ proc' = Reaped(proc, target)
        /\ waited' = Append(waited, target)
  /\ t' = t + 1
  /\ IF t + 1 = Ncmds(l) THEN Return("success") ELSE UNCHANGED <<pc, ret>>
  /\ UNCHANGED <<g_jobs, g_last_cmdline, ctab, fdtab, listing, l, pipes, in_fd, out_fd,
                 pids, i, spawned, badclose, jobret, failure>>

\* What PIPE_FAIL closes (executor.c 230-232).
PipeFailCloses(pp, n, in, out) == AllPipeFds(pp, n - 1) \o EndFds(in, out)

\* PIPE_FAIL: the descriptors are closed (executor.c 226-232).
PipeFail ==
  /\ UNCHANGED pid_read
  /\ pc = "PIPE_FAIL"
  /\ LET closes == PipeFailCloses(pipes, Ncmds(l), in_fd, out_fd)
     IN /\ fdtab' = CloseSeq(fdtab, closes)
        /\ badclose' = badclose \cup BadCloses(fdtab, closes)
  /\ pc' = "fail_wait"
  /\ t' = 0
  /\ UNCHANGED <<g_jobs, g_last_cmdline, proc, ctab, listing, l, pipes, in_fd, out_fd,
                 pids, i, ret, spawned, waited, jobret, failure>>

\* What a read of pids[s] can yield: the pid written there, or, for an entry
\* never written, whatever malloc's memory held: the id of a child of the shell,
\* or a number that makes the loop do nothing to any process (0 stands for
\* these: a number <= 0 is skipped, on one that is no child of the shell
\* waitpid fails at once with ECHILD).
PidRead(pp, s) ==
  IF pp[s] = Uninit
  THEN {0} \cup {p \in DOMAIN proc : proc[p] \in {"running", "zombie"}}
  ELSE {pp[s]}

\* A variant whose test is off by one.
ShouldReapAboveOne(v) == v > 1

\* `pids[t] > 0`: the entry is taken for a spawned child (executor.c 234).
ShouldReap(v) == v > 0

\* PIPE_FAIL: one iteration of the reap loop, then the return (executor.c
\* 233-238).  The read of an entry never written fixes what the entry holds;
\* the wait is then on that value, and blocks while it is a running child.
PipeFailWait ==
  /\ pc = "fail_wait"
  /\ t < Ncmds(l)
  /\ IF pids[t] = Uninit /\ pid_read = Uninit
     THEN /\ \E v \in PidRead(pids, t) : pid_read' = v
          /\ UNCHANGED <<proc, waited, t, pc, ret>>
     ELSE LET v == IF pids[t] = Uninit THEN pid_read ELSE pids[t]
          IN /\ IF ShouldReap(v)
                THEN /\ ~WaitBlocks(proc, v)
                     /\ proc' = Reaped(proc, v)
                     /\ waited' = Append(waited, v)
                ELSE UNCHANGED <<proc, waited>>
             /\ t' = t + 1
             /\ IF t + 1 = Ncmds(l) THEN Return("failure") ELSE UNCHANGED <<pc, ret>>
             /\ pid_read' = Uninit
  /\ UNCHANGED <<g_jobs, g_last_cmdline, ctab, fdtab, listing, l, pipes, in_fd, out_fd,
                 pids, i, spawned, badclose, jobret, failure>>

(* ------------------------------ children ------------------------------- *)
\* A running child terminates (its program ends, or execvp failed and it exits
\* 127); the kernel closes its descriptors.
ChildExit(p) ==
  /\ UNCHANGED pid_read
  /\ proc[p] = "running"
  /\ proc' = [proc EXCEPT ![p] = "zombie"]
  /\ ctab' = [ctab EXCEPT ![p] = NoFds]
  /\ UNCHANGED <<g_jobs, g_last_cmdline, fdtab, listing, pc, l, pipes, in_fd, out_fd, pids,
                 i, t, ret, spawned, waited, badclose, jobret, failure>>

Next ==
  \/ \E cl \in CmdLines : \E text \in TextsOf(cl) : Call(cl, text)
  \/ Leave
  \/ PrintJobs
  \/ SingleOpen
  \/ ExecuteCommand
  \/ SingleWait
  \/ PipelineSetup
  \/ SpawnStage
  \/ AllSpawned
  \/ WaitStage
  \/ PipeFail
  \/ PipeFailWait
  \/ \E p \in DOMAIN proc : ChildExit(p)

Spec == Init /\ [][Next]_vars
\* The same program on the system with one more process.
SpecRoomy == InitRoomy /\ [][Next]_vars
\* The same program with one more process and one more slot.
SpecTable == InitTable /\ [][Next]_vars

\* The steps of the shell itself inside execute: a sequential program that
\* runs whenever it is not blocked in waitpid.
ShellStep ==
  \/ PrintJobs
  \/ SingleOpen
  \/ ExecuteCommand
  \/ SingleWait
  \/ PipelineSetup
  \/ SpawnStage
  \/ AllSpawned
  \/ WaitStage
  \/ PipeFail
  \/ PipeFailWait

\* A read of descriptor 0 by child p returns end-of-stream: every descriptor
\* on the write end of the pipe it reads, in the shell and in every process,
\* is closed.
ReadsEof(p) ==
  \A k \in 0..(MaxStages - 2) :
    ctab[p][STDIN_FILENO] = PipeRead(k) =>
      /\ \A fd \in Fds : fdtab[fd] # PipeWrite(k)
      /\ \A q \in DOMAIN ctab : \A fd \in Fds : ctab[q][fd] # PipeWrite(k)

\* A stage of the call in progress terminates: stage 0 at some time of its
\* own, a later stage once it reads end-of-stream.
StageExit(p) ==
  /\ \E j \in 1..Len(spawned) : spawned[j] = p /\ (j = 1 \/ ReadsEof(p))
  /\ ChildExit(p)

\* The program under the scheduling the system gives it: the shell runs, and
\* the stages terminate as above.  A job of an earlier call may run for ever.
SpecFair ==
  /\ Init
  /\ [][Next]_vars
  /\ WF_vars(ShellStep)
  /\ \A p \in 1..MaxPid : WF_vars(StageExit(p))

TypeOK ==
  /\ proc \in [DOMAIN proc -> ProcStates]
  /\ pc \in {"idle", "done", "print_jobs", "single_open", "execute_command", "single_wait", "pipeline",
             "spawn", "all_spawned", "wait", "PIPE_FAIL", "fail_wait"}
  /\ ret \in {"none", "success", "failure"}
  /\ \A s \in Slots : g_jobs[s].active \in {0, 1} /\ g_jobs[s].pid \in {0} \cup DOMAIN proc

(* ------------------------------- claims -------------------------------- *)
RedirOrPipe == {"pipe_r", "pipe_w", "in_file", "out_file"}
\* The shell holds no pipe end and no redirection file.
ShellHoldsNone == \A fd \in Fds : fdtab[fd].t \notin RedirOrPipe
\* Every child this call forked has been waited for by a blocking wait of this call.
AllSpawnedReaped ==
  \A j \in 1..Len(spawned) :
    /\ proc[spawned[j]] = "reaped"
    /\ \E k \in 1..Len(waited) : waited[k] = spawned[j]
\* This call went through PIPE_FAIL.
TookPipeFail == Ncmds(l) >= 2 /\ failure \in {"fork", "empty"}

\* C1: when execute has returned (and until the next call), whatever path it
\* took, the shell holds none of the pipe or redirection descriptors the call opened.
C1_NoDescriptorLeak == pc \in {"done", "idle"} => ShellHoldsNone
\* Reached: a pipeline with both redirections that forked a stage and then failed.
C1_Witness ==
  /\ pc = "done" /\ Ncmds(l) >= 2 /\ l.in /\ l.out
  /\ failure = "fork" /\ Len(spawned) = 1 /\ ShellHoldsNone

\* C2: when fork fails at stage k of a pipeline, execute returns failure, the
\* children of stages 0..k-1 have all been waited for and reaped, and the shell
\* holds no pipe or redirection descriptor.
C2_ForkFailureRollsBack ==
  (pc = "done" /\ Ncmds(l) >= 2 /\ failure = "fork") =>
     ret = "failure" /\ AllSpawnedReaped /\ ShellHoldsNone
\* Reached: fork failed at stage 1 of 3, after stage 0 was spawned.
C2_Witness ==
  /\ pc = "done" /\ Ncmds(l) = 3 /\ failure = "fork" /\ Len(spawned) = 1
  /\ ret = "failure" /\ proc[spawned[1]] = "reaped"

\* C3 as stated: a call with the background flag performs no blocking wait, on
\* any path.
C3_Original == l.bg => waited = <<>>
\* C3 amended: a call with the background flag performs no blocking wait unless
\* it goes through PIPE_FAIL; when it does, it has waited for every child it
\* spawned by the time it returns.
C3_BackgroundWaitsOnlyOnPipeFail ==
  l.bg => /\ ~TookPipeFail => waited = <<>>
          /\ (TookPipeFail /\ pc = "done") => AllSpawnedReaped
\* Reached: a background pipeline of two stages has returned success unwaited.
C3_Witness ==
  /\ pc = "done" /\ l.bg /\ ret = "success" /\ Len(spawned) = 2 /\ waited = <<>>

\* The process of a job has terminated, whether or not something waited for it.
Exited(p) == p \in DOMAIN proc /\ proc[p] \in {"zombie", "reaped"}
\* A step in which execute is entered, so that reap_finished_jobs runs.
ReapStep == pc = "idle" /\ pc' # "idle"
\* The step in which the jobs builtin runs print_jobs.
ListStep == pc = "print_jobs" /\ pc' = "done"

\* C4 as stated: when reap_finished_jobs meets an active slot whose process is
\* no child of the shell any more (waitpid fails with ECHILD), it marks the slot
\* inactive.
C4_Original ==
  [][ReapStep =>
        \A s \in Slots :
          (g_jobs[s].active = 1 /\ WaitNoHang(proc, g_jobs[s].pid) = -1)
             => g_jobs'[s].active = 0]_vars

\* C5 as stated: a background single command that returned with a free slot
\* holds an active slot with its pid; and once the process of an active slot has
\* exited, the next reap_finished_jobs makes the slot inactive and a listing
\* written from then on has no line for that pid.
C5_Original ==
  /\ [](( /\ pc = "done" /\ Ncmds(l) = 1 /\ l.bg
          /\ spawned # <<>> /\ jobret # <<>> /\ jobret # <<-1>> )
        => /\ g_jobs[jobret[1]].active = 1
           /\ g_jobs[jobret[1]].pid = spawned[1])
  /\ [][(ReapStep \/ ListStep) =>
          \A s \in Slots :
            (g_jobs[s].active = 1 /\ Exited(g_jobs[s].pid))
               => /\ g_jobs'[s].active = 0
                  /\ \A k \in 1..Len(listing') : listing'[k].pid # g_jobs[s].pid]_vars

\* C6: an add_job fails (returns -1) exactly when every slot is active; the
\* failed insert leaves every record as it was, no process is waited for or
\* changes state because of it, execute still returns success, and every slot
\* whose process has terminated is still cleared by a reap_finished_jobs.
C6_FullTableInsertFails ==
  [][(jobret = <<>> /\ jobret' # <<>>) =>
       LET full == \A s \in Slots : g_jobs[s].active = 1
       IN /\ full <=> jobret' = <<-1>>
          /\ full =>
               /\ g_jobs' = g_jobs
               /\ \A p \in DOMAIN proc : proc[p] # "none" => proc'[p] = proc[p]
               /\ waited' = waited
               /\ pc' = "done" /\ ret' = "success"
               /\ \A s \in Slots :
                    (g_jobs'[s].active = 1 /\ proc'[g_jobs'[s].pid] = "zombie")
                      => reap_finished_jobs(g_jobs', proc').jobs[s].active = 0]_vars
\* Reached: a background launch has returned with the table full and the job
\* not registered.
C6_Witness ==
  /\ pc = "done" /\ jobret = <<-1>> /\ ret = "success"
  /\ \A s \in Slots : g_jobs[s].active = 1 /\ g_jobs[s].pid # spawned[1]

\* C7: when a foreground pipeline has returned success, the blocking waits it
\* performed are exactly the pids of its stages in spawn order, one per stage,
\* and every stage is reaped.
C7_ForegroundWaitsInSpawnOrder ==
  (pc = "done" /\ ret = "success" /\ ~l.bg /\ Ncmds(l) >= 2) =>
     /\ Len(spawned) = Ncmds(l)
     /\ waited = spawned
     /\ \A j \in 1..Len(spawned) : pids[j - 1] = spawned[j] /\ proc[spawned[j]] = "reaped"
\* Reached: a foreground pipeline of two stages has returned.
C7_Witness ==
  /\ pc = "done" /\ ret = "success" /\ ~l.bg /\ Ncmds(l) = 2
  /\ Len(waited) = 2 /\ waited[1] # waited[2]

HasEmptyStage(cl) == \E s \in 1..Len(cl.seq) : cl.seq[s] = <<>>

ExpectedIn(s) == IF s = 0 THEN (IF l.in THEN InFile ELSE TtyIn) ELSE PipeRead(s - 1)
ExpectedOut(s) ==
  IF s = Ncmds(l) - 1 THEN (IF l.out THEN OutFile ELSE TtyOut) ELSE PipeWrite(s)

\* C9: every child of the call in progress runs its program with the previous
\* pipe's read end (stage 0: the input file if given, else the shell's stdin) as
\* descriptor 0, the next pipe's write end (last stage: the output file if given,
\* else the shell's stdout) as descriptor 1, and no other descriptor on a pipe
\* or a redirection file; so stage s writes the pipe stage s+1 reads.
C9_ChildWiring ==
  \A j \in 1..Len(spawned) :
    proc[spawned[j]] = "running" =>
      /\ ctab[spawned[j]][STDIN_FILENO] = ExpectedIn(j - 1)
      /\ ctab[spawned[j]][STDOUT_FILENO] = ExpectedOut(j - 1)
      /\ \A fd \in Fds \ {STDIN_FILENO, STDOUT_FILENO} :
           ctab[spawned[j]][fd].t \notin RedirOrPipe
\* Reached: stages 0 and 1 of a 3-stage pipeline with an input file both run.
C9_Witness ==
  /\ Ncmds(l) = 3 /\ l.in /\ Len(spawned) = 2
  /\ proc[spawned[1]] = "running" /\ proc[spawned[2]] = "running"
  /\ ctab[spawned[1]][STDIN_FILENO] = InFile
  /\ ctab[spawned[1]][STDOUT_FILENO] = PipeWrite(0)
  /\ ctab[spawned[2]][STDIN_FILENO] = PipeRead(0)
  /\ ctab[spawned[2]][STDOUT_FILENO] = PipeWrite(1)

\* The slots that hold pid p.
SlotsOf(p) == {s \in Slots : g_jobs[s].pid = p}
\* No pid of a stage after the first is in the job table, and none was waited for.
LaterStagesUntracked ==
  \A j \in 2..Len(spawned) :
    SlotsOf(spawned[j]) = {} /\ \A k \in 1..Len(waited) : waited[k] # spawned[j]

\* C10 as stated: a background pipeline that returned success has added exactly
\* one record, with the pid of stage 0 and the text of the line; the later
\* stages are not in the table and were not waited for.
C10_Original ==
  (pc = "done" /\ ret = "success" /\ l.bg /\ Ncmds(l) >= 2) =>
     /\ Cardinality(SlotsOf(spawned[1])) = 1
     /\ \A s \in SlotsOf(spawned[1]) :
          g_jobs[s].active = 1 /\ g_jobs[s].cmdline = g_last_cmdline
     /\ LaterStagesUntracked
\* C10 amended: the same, provided the table had an inactive slot; when it was
\* full, the run still returns success and adds no record at all.
C10_BackgroundPipelineTracksFirstStage ==
  (pc = "done" /\ ret = "success" /\ l.bg /\ Ncmds(l) >= 2) =>
     /\ IF jobret = <<-1>> THEN SlotsOf(spawned[1]) = {}
        ELSE /\ SlotsOf(spawned[1]) = {jobret[1]}
             /\ g_jobs[jobret[1]] =
                  [pid |-> spawned[1], active |-> 1, cmdline |-> g_last_cmdline]
     /\ LaterStagesUntracked
\* Reached: a background pipeline of two stages is registered under stage 0 and
\* its text.
C10_Witness ==
  /\ pc = "done" /\ ret = "success" /\ l.bg /\ Ncmds(l) = 2
  /\ jobret = <<0>> /\ g_jobs[0].pid = spawned[1] /\ g_jobs[0].cmdline = <<"a", "b">>

\* The active slots of table jobs.
ActiveSlots(jobs) == {s \in DOMAIN jobs : jobs[s].active = 1}
\* Sequence lines has one line per slot of set act, in increasing slot order,
\* with the pid and the text of the slot's record.
ListsInSlotOrder(lines, jobs, act) ==
  /\ Len(lines) = Cardinality(act)
  /\ \E f \in [1..Len(lines) -> act] :
       /\ \A a, b \in 1..Len(lines) : a < b => f[a] < f[b]
       /\ \A k \in 1..Len(lines) :
            /\ lines[k].pid = jobs[f[k]].pid
            /\ lines[k].text = IF jobs[f[k]].cmdline = <<>> THEN Unknown ELSE jobs[f[k]].cmdline

\* C11: the listing reaps before it reads the table: a slot whose process has
\* terminated and is still to be waited for is cleared and its process reaped,
\* and no such process has a line; the lines are exactly the slots active after
\* the reap, in increasing slot order, one line each; with no slot active the
\* listing is the single line '(no background jobs)'.
C11_ListingReapsFirst ==
  [][ListStep =>
       /\ \A s \in Slots :
            (g_jobs[s].active = 1 /\ proc[g_jobs[s].pid] = "zombie")
              => /\ g_jobs'[s].active = 0
                 /\ proc'[g_jobs[s].pid] = "reaped"
                 /\ \A k \in 1..Len(listing') : listing'[k].pid # g_jobs[s].pid
       /\ IF ActiveSlots(g_jobs') = {}
          THEN listing' = <<NoJobsLine>>
          ELSE ListsInSlotOrder(listing', g_jobs', ActiveSlots(g_jobs'))]_vars
\* Reached: of two jobs the first has exited and was reaped, and the listing
\* has one line, for the second, which runs.
C11_Witness ==
  /\ pc = "done" /\ IsJobsBuiltin(l) /\ Cardinality(Slots) >= 2
  /\ g_jobs[0].active = 0 /\ g_jobs[0].pid # 0 /\ proc[g_jobs[0].pid] = "reaped"
  /\ g_jobs[1].active = 1 /\ proc[g_jobs[1].pid] = "running"
  /\ listing = <<[pid |-> g_jobs[1].pid, text |-> g_jobs[1].cmdline]>>

\* The shell holds both ends of every pipe of the line in progress.
ShellHoldsAllPipes ==
  /\ DOMAIN pipes = 0..(Ncmds(l) - 2)
  /\ \A k \in DOMAIN pipes :
       fdtab[pipes[k][1]] = PipeRead(k) /\ fdtab[pipes[k][2]] = PipeWrite(k)
\* The redirections of the line in progress are resolved.
EndsResolved ==
  /\ IF l.in THEN fdtab[in_fd] = InFile ELSE in_fd = STDIN_FILENO
  /\ IF l.out THEN fdtab[out_fd] = OutFile ELSE out_fd = STDOUT_FILENO

\* C12: in a pipeline, when the spawn loop is about to fork stage 0 nothing has
\* been forked, all N-1 pipes exist and both redirections are resolved; and a
\* call that failed to create a pipe or to open the input or output file has
\* returned failure, forked nothing and left the shell with none of the pipe or
\* redirection descriptors it had opened.
C12_SetupBeforeFirstFork ==
  Ncmds(l) >= 2 =>
    /\ (pc = "spawn" /\ i = 0) => spawned = <<>> /\ ShellHoldsAllPipes /\ EndsResolved
    /\ spawned # <<>> => DOMAIN pipes = 0..(Ncmds(l) - 2)
    /\ (pc = "done" /\ failure \in {"pipe", "open_in", "open_out"}) =>
         ret = "failure" /\ spawned = <<>> /\ ShellHoldsNone
\* Reached: a three-stage pipeline whose input was opened and whose output
\* could not be, after both pipes were created.
C12_Witness ==
  /\ pc = "done" /\ Ncmds(l) = 3 /\ l.in /\ failure = "open_out"
  /\ DOMAIN pipes = {0, 1} /\ ret = "failure" /\ spawned = <<>> /\ ShellHoldsNone

\* The shell holds a descriptor on open file obj.
ShellHolds(obj) == \E fd \in Fds : fdtab[fd] = obj

\* C13 as stated: in the spawn loop, once stage s > 0 is forked and its closes
\* are done (and before the next fork), the parent no longer holds the read
\* end of pipe s-1.
C13_Original ==
  (Ncmds(l) >= 2 /\ pc \in {"spawn", "all_spawned"}) =>
     \A s \in 1..(i - 1) : ~ShellHolds(PipeRead(s - 1))

\* The processes, other than the shell, that hold a descriptor on open file obj.
Holders(obj) == {p \in DOMAIN ctab : \E fd \in Fds : ctab[p][fd] = obj}

\* C14: in a pipeline whose stages were all forked, from the parent's first
\* blocking wait (foreground) or its return (background) on, the parent holds no
\* pipe write end, and the write end of pipe k is open in no process but stage k,
\* there as descriptor 1 only; so once stage k has terminated no process holds
\* it and stage k+1 reads end-of-stream.
C14_WriteEndsOnlyInWriters ==
  (Ncmds(l) >= 2 /\ (pc = "wait" \/ (pc = "done" /\ ret = "success"))) =>
     \A k \in 0..(Ncmds(l) - 2) :
       /\ ~ShellHolds(PipeWrite(k))
       /\ Holders(PipeWrite(k)) \subseteq {spawned[k + 1]}
       /\ \A fd \in Fds \ {STDOUT_FILENO} : ctab[spawned[k + 1]][fd] # PipeWrite(k)
       /\ proc[spawned[k + 1]] # "running" => Holders(PipeWrite(k)) = {}
\* Reached: the parent is at its first wait on three running stages, each
\* writer holding its pipe's write end.
C14_Witness ==
  /\ pc = "wait" /\ t = 0 /\ Ncmds(l) = 3
  /\ \A j \in 1..3 : proc[spawned[j]] = "running"
  /\ Holders(PipeWrite(0)) = {spawned[1]} /\ Holders(PipeWrite(1)) = {spawned[2]}
  /\ ~ShellHolds(PipeWrite(0)) /\ ~ShellHolds(PipeWrite(1))

\* C15 as stated: a foreground call of execute, once entered, eventually
\* returns, when the shell runs, stage 0 terminates and every later stage
\* terminates once it reads end-of-stream.
C15_Original == (pc \notin {"idle", "done"} /\ ~l.bg) ~> (pc = "done")

\* The step in which this call's add_job returns.
AddJobStep == jobret = <<>> /\ jobret' # <<>>

\* C16 as stated: execute reaps before anything else, so when it is entered
\* with every slot active and the process of at least one of them exited, a
\* slot is inactive once the reap is done; and an add_job that finds an
\* inactive slot registers the new background command in it, in place.
C16_Original ==
  /\ [][(ReapStep /\ (\A s \in Slots : g_jobs[s].active = 1)
                  /\ (\E s \in Slots : Exited(g_jobs[s].pid)))
          => \E s \in Slots : g_jobs'[s].active = 0]_vars
  /\ [][(AddJobStep /\ (\E s \in Slots : g_jobs[s].active = 0))
          => /\ jobret'[1] \in Slots
             /\ g_jobs[jobret'[1]].active = 0
             /\ g_jobs'[jobret'[1]].active = 1
             /\ g_jobs'[jobret'[1]].pid = spawned'[1]]_vars

\* C17: an add_job that succeeds takes the lowest-indexed inactive slot,
\* returns its index, stores the pid there and sets it active, and leaves every
\* other slot as it was (so no active slot is overwritten); a
\* reap_finished_jobs changes no pid and no command text, activates no slot and
\* clears no slot whose process is still running.
C17_JobTableFrames ==
  /\ [][(AddJobStep /\ jobret' # <<-1>>) =>
          LET r == jobret'[1]
          IN /\ r \in Slots
             /\ g_jobs[r].active = 0
             /\ \A q \in Slots : q < r => g_jobs[q].active = 1
             /\ g_jobs'[r] = [pid |-> pids'[0], active |-> 1,
                              cmdline |-> g_last_cmdline]
             /\ \A q \in Slots \ {r} : g_jobs'[q] = g_jobs[q]]_vars
  /\ [][(ReapStep \/ ListStep) =>
          \A s \in Slots :
            /\ g_jobs'[s].pid = g_jobs[s].pid
            /\ g_jobs'[s].cmdline = g_jobs[s].cmdline
            /\ g_jobs'[s].active = 1 => g_jobs[s].active = 1
            /\ (g_jobs[s].active = 1 /\ proc[g_jobs[s].pid] = "running")
                 => g_jobs'[s].active = 1]_vars
\* Reached: with slot 0 active and running, a new job was stored in slot 1;
\* slot 0 still holds its own record.
C17_Witness ==
  /\ pc = "done" /\ jobret = <<1>> /\ Cardinality(Slots) >= 2
  /\ g_jobs[0].active = 1 /\ g_jobs[0].pid # pids[0] /\ proc[g_jobs[0].pid] = "running"
  /\ g_jobs[1] = [pid |-> pids[0], active |-> 1, cmdline |-> g_last_cmdline]

\* The step in which fork fails in execute_command.
SingleForkFails == pc = "execute_command" /\ failure' = "fork"

\* C18: when fork fails in execute_command, the call returns failure with both
\* descriptors it was given closed; the job table and every process are as they
\* were, whatever the background flag, add_job was not called and nothing was
\* waited for.
C18_SingleForkFailure ==
  [][SingleForkFails =>
       /\ pc' = "done" /\ ret' = "failure"
       /\ \A fd \in Fds : fdtab'[fd].t \notin RedirOrPipe
       /\ in_fd # STDIN_FILENO => fdtab'[in_fd] = Closed
       /\ out_fd # STDOUT_FILENO => fdtab'[out_fd] = Closed
       /\ g_jobs' = g_jobs /\ jobret' = <<>>
       /\ proc' = proc /\ spawned' = <<>> /\ waited' = <<>>]_vars
\* Reached: a background command with both redirections whose fork failed.
C18_Witness ==
  /\ pc = "done" /\ Ncmds(l) = 1 /\ l.bg /\ l.in /\ l.out /\ failure = "fork"
  /\ in_fd # STDIN_FILENO /\ out_fd # STDOUT_FILENO
  /\ ret = "failure" /\ ShellHoldsNone /\ jobret = <<>> /\ spawned = <<>>

\* C19 as stated: on the pipeline failure path every blocking wait of the
\* parent is on a pid this call spawned, and the value the parent is about to
\* wait on is never one read from an entry of the pid array that was not
\* written.
C19_Original ==
  TookPipeFail =>
    /\ \A k \in 1..Len(waited) : \E j \in 1..Len(spawned) : spawned[j] = waited[k]
    /\ pid_read # Uninit => ~ShouldReap(pid_read)

\* C20 as stated: within one call the parent never closes a descriptor number
\* that is not open, in particular one it has already closed.
C20_Original == badclose = {}

====
